---------------------------- MODULE Spec2Model ----------------------------
(***************************************************************************)
(* A model of the vehicle-assistant frontend:                              *)
(*   - WebSocketAPI (src/frontend/src/App.js), the reconnecting socket     *)
(*     client, together with the browser WebSocket objects it creates;     *)
(*   - the assistant's speech path of Dashboard.js (speakText and the      *)
(*     voice/text send that leads to it);                                  *)
(*   - groupInteractionsBySessions of Dashboard.js, the history grouping.  *)
(* Each part has a specification of its own (SpecSocket, SpecSpeech,       *)
(* SpecSessions) over the one set of variables.                            *)
(***************************************************************************)
EXTENDS Integers, Sequences, FiniteSets, Bags, TLC

(***************************************************************************)
(* Bounds of the model.                                                    *)
(***************************************************************************)
\* WebSocket objects alive at once (a closed, unreferenced one is collected)
MaxSockets == 2
\* setTimeout callbacks pending at once
MaxTimers == 1
\* frames recorded per socket
MaxFrames == 1
\* registered message handlers
MaxHandlers == 2
\* tokens of an inbound frame
MaxFrameLen == 2
\* sends awaiting their reply at once
MaxRequests == 2
\* sends of a non-blank message in one run
MaxSends == 3
\* utterances in the synthesizer's queue
MaxUtterances == 2
\* characters of a response text
MaxTextLen == 2
\* interactions of a fetched history
MaxInteractions == 3
\* days between the oldest session start and the latest clock reading
MaxDaysBack == 8
\* interactions in the answer to a history fetch
MaxFetched == 1
\* history fetches in flight
MaxFetches == 2
\* pieces of a generated response text
MaxContentLen == 3
\* numbered entries of a place-search example
MaxEntries == 3
\* pieces of a text given to extractKeyInfoForSpeech
MaxSpeechLen == 3

(***************************************************************************)
(* Program constants.                                                      *)
(***************************************************************************)
maxReconnectAttempts == 5
ReconnectBaseDelay == 2000
\* extractKeyInfoForSpeech: a first sentence shorter than this gets the second
SecondSentenceLimit == 50
\* groupInteractionsBySessions: 30 * 60 * 1000 ms
SessionGapMs == 1800000
\* formatSessionDate: 1000 * 60 * 60 * 24 ms
DayMs == 86400000

VARIABLES
    \* ---- WebSocketAPI fields (App.js 375-381)
    socket,             \* this.socket: a socket id, or NoSocket for null
    isConnected,        \* this.isConnected
    messageHandlers,    \* this.messageHandlers: sequence of handlers
    reconnectAttempts,  \* this.reconnectAttempts
    \* ---- the browser side of the client
    readyState,         \* readyState of each WebSocket object
    sockUser,           \* the userId captured by each socket's callbacks
    sent,               \* frames handed to the network, per socket
    timers,             \* pending setTimeout callbacks: bag of [delay, userId]
    \* ---- observation of the last step
    thrown,             \* the last call or callback ended in an uncaught exception
    calls,              \* handler invocations made for the last inbound frame
    consecutiveDrops,   \* close events since the last open event (history)
    userClosed,         \* sockets closed by disconnect() while Connected (history)
    ev,                 \* the last step: [op, ...]
    \* ---- Dashboard: the assistant's React state (Dashboard.js 36-55)
    isLoading,          \* a send awaits its reply (as last set)
    isListening,        \* the listening indicator
    isSpeaking,         \* an utterance is playing (as last set)
    assistantMessage,   \* the text input
    \* ---- Dashboard: the browser side of the assistant
    rec,                \* the recognition session: "idle", "listening", "resulted"
    recCap,             \* isSpeaking as captured by the handlers set on the recognition
    requests,           \* sends awaiting their reply: bag of [method, capSpeaking, send]
    chatHistory,        \* the conversation transcript: sequence of entries
    sends,              \* handleSendMessage calls that passed the blank check (history)
    utterances,         \* utterances given to speechSynthesis.speak and not ended
    spoken,             \* the text of the last utterance given to speak
    loggedOut,          \* onLogout was called
    aev,                \* the assistant's last step
    \* ---- Dashboard: the history tab
    interactions,       \* recent_interactions as fetched, in the backend's order
    now,                \* the clock read by formatSessionDate
    sessions,           \* persistentHistory: the session list as last stored
    grouped,            \* groupInteractionsBySessions has run on interactions
    historyLoading,     \* historyLoading
    historyError,       \* historyError
    historyFetches,     \* history fetches awaiting their answer
    hev,                \* the history tab's last step
    \* ---- Dashboard: response formatting
    content,            \* the response text given to formatResponse
    rendered,           \* what formatResponse returned for it
    \* ---- Dashboard: the summary for speech
    speechText,         \* the response text given to extractKeyInfoForSpeech
    summary             \* what extractKeyInfoForSpeech returned for it

socketVars == <<socket, isConnected, messageHandlers, reconnectAttempts,
                readyState, sockUser, sent, timers, thrown, calls,
                consecutiveDrops, userClosed, ev>>

assistantVars == <<isLoading, isListening, isSpeaking, assistantMessage, rec, recCap,
                   requests, chatHistory, sends, utterances, spoken, loggedOut, aev>>

loadVars == <<historyLoading, historyError, historyFetches, hev>>

historyVars == <<interactions, now, sessions, grouped, loadVars>>

speechVars == <<speechText, summary>>

formatVars == <<content, rendered, speechVars>>

vars == <<socketVars, assistantVars, historyVars, formatVars>>

otherThanSocket == <<assistantVars, historyVars, formatVars>>
otherThanAssistant == <<socketVars, historyVars, formatVars>>
otherThanHistory == <<socketVars, assistantVars, formatVars>>
otherThanFormat == <<socketVars, assistantVars, historyVars>>

(***************************************************************************)
(* Values.                                                                 *)
(***************************************************************************)
NoSocket == 0
Sockets == 1..MaxSockets
\* The identity the application connects with; connect's default is not used.
Users == {"u1"}
DefaultUser == "default_user"
NoUser == "-"
\* Handlers a caller can register: one that returns, one that throws, and a
\* one-shot listener that unregisters itself when called.
Handlers == {"hOk", "hThrow", "hOnce"}
Tokens == {"[", "]", "1"}

RECURSIVE SeqsUpTo(_, _)
SeqsUpTo(S, n) ==
    IF n = 0 THEN {<<>>}
    ELSE LET shorter == SeqsUpTo(S, n - 1)
         IN shorter \cup {Append(q, x) : q \in {r \in shorter : Len(r) = n - 1}, x \in S}

\* Inbound frames: every token string of at most MaxFrameLen tokens.
InboundFrames == SeqsUpTo(Tokens, MaxFrameLen)

(***************************************************************************)
(* JSON.  An outbound object is written as a token string; an inbound      *)
(* token string is parsed by the grammar                                   *)
(*     value ::= 1 | [ ] | [ value ]                                       *)
(* and anything else is a SyntaxError.                                     *)
(***************************************************************************)
JSONStringify(data) ==
    <<"{", "type", data.type, "user_id", data.user_id, "}">>

RECURSIVE JSONParse(_)
JSONParse(frame) ==
    IF frame = <<"1">> THEN [ok |-> TRUE, value |-> [t |-> "num", depth |-> 0]]
    ELSE IF Len(frame) >= 2 /\ Head(frame) = "[" /\ frame[Len(frame)] = "]"
    THEN IF Len(frame) = 2
         THEN [ok |-> TRUE, value |-> [t |-> "arr", depth |-> 0]]
         ELSE LET inner == JSONParse(SubSeq(frame, 2, Len(frame) - 1))
              IN IF inner.ok
                 THEN [ok |-> TRUE,
                       value |-> [t |-> inner.value.t, depth |-> inner.value.depth + 1]]
                 ELSE [ok |-> FALSE, value |-> [t |-> "err", depth |-> 0]]
    ELSE [ok |-> FALSE, value |-> [t |-> "err", depth |-> 0]]

\* An announcement that names connect's default user, not the socket's.
AnnouncementOfDefault(userId) == [type |-> "user_connected", user_id |-> DefaultUser]
\* The identity announcement of onopen (the timestamp field is left out).
Announcement(userId) == [type |-> "user_connected", user_id |-> userId]
\* What a caller sends.
CallerMessages == {[type |-> "chat", user_id |-> u] : u \in {"u1"}}


(***************************************************************************)
(* The browser's WebSocket objects.                                        *)
(***************************************************************************)
ReadyStates == {"unborn", "connecting", "open", "closing", "closed"}
Live(s) == readyState[s] \in {"connecting", "open"}

\* A slot for `new WebSocket`: one never used, or one whose socket is closed
\* and has dispatched its close event (no callback of it can run again; its
\* record is cleared by the close event).
FreeSlots == {s \in Sockets : readyState[s] \in {"unborn", "closed"}}
MinOf(S) == CHOOSE x \in S : \A y \in S : x <= y

\* WebSocket.send: InvalidStateError on a socket still connecting, the frame
\* handed to the network on an open one, silently discarded on one that is
\* closing or closed.
SocketSend(rs, frame) ==
    CASE rs = "connecting" -> [thrown |-> TRUE, tx |-> <<>>]
      [] rs = "open" -> [thrown |-> FALSE, tx |-> <<frame>>]
      [] OTHER -> [thrown |-> FALSE, tx |-> <<>>]

\* WebSocket.close: starts the closing handshake of a connecting or open
\* socket; the close event follows later.
SocketClose(rs) == IF rs \in {"connecting", "open"} THEN "closing" ELSE rs

\* The frames recorded for a socket: the first MaxFrames handed to the network.
Record(log, tx) == SubSeq(log \o tx, 1, IF Len(log \o tx) < MaxFrames THEN Len(log \o tx) ELSE MaxFrames)

(***************************************************************************)
(* WebSocketAPI.                                                           *)
(***************************************************************************)
\* send (App.js 440-446), on the fields as they are when it is called.
SendNoConnectedCheck(conn, sock, rs, data) ==
    IF sock # NoSocket
    THEN [SocketSend(rs[sock], JSONStringify(data)) EXCEPT !.thrown = @] @@ [warned |-> FALSE]
    ELSE [thrown |-> FALSE, tx |-> <<>>, warned |-> TRUE]

WsSend(conn, sock, rs, data) ==
    IF conn /\ sock # NoSocket
    THEN SocketSend(rs[sock], JSONStringify(data)) @@ [warned |-> FALSE]
    ELSE [thrown |-> FALSE, tx |-> <<>>, warned |-> TRUE]

\* onclose's test and delay (App.js 424-427).
ShouldReconnectOffByOne(attempts) == attempts <= maxReconnectAttempts
ShouldReconnect(attempts) == attempts < maxReconnectAttempts

ReconnectDelay(attempts) == ReconnectBaseDelay * attempts

\* onopen's counter (App.js 391).
AttemptsAfterOpenKept(attempts) == attempts
AttemptsAfterOpen(attempts) == 0

Connected == isConnected /\ socket # NoSocket

\* The retries are used up (App.js 424): the counter is at its maximum,
\* no retry is scheduled and no socket is connecting or open.
Exhausted ==
    /\ reconnectAttempts = maxReconnectAttempts
    /\ timers = EmptyBag
    /\ \A s \in Sockets : ~Live(s)

\* The record of a step: its operation, the socket it concerns, and for an
\* open event the attempt counter before it, for a send whether the client
\* was Connected, for both whether a frame was handed to the network; for a
\* connect whether the client was Exhausted, for a close event whether the
\* step before it was the connect from Exhausted that created its socket.
Event(op, s, tx) ==
    [op |-> op, sock |-> s,
     attempts |-> IF op = "open" THEN reconnectAttempts ELSE 0,
     wasConnected |-> IF op = "send" THEN Connected ELSE FALSE,
     fromExhausted |-> CASE op = "connect" -> Exhausted
                         [] op = "close" -> ev.op = "connect" /\ ev.fromExhausted
                                                /\ ev.sock = s
                         [] OTHER -> FALSE,
     tx |-> tx, frame |-> <<>>]

\* connect called by the application starting over with a counter of 0.
AttemptsAfterConnectReset(attempts, op) == IF op = "connect" THEN 0 ELSE attempts
\* connect leaves the counter alone (App.js 383-386).
AttemptsAfterConnect(attempts, op) == attempts

\* The body of connect (App.js 383-438): a new socket with its four callbacks.
DoConnect(userId, op, rest) ==
    /\ FreeSlots # {}
    /\ LET s == MinOf(FreeSlots)
       IN /\ socket' = s
          /\ readyState' = [readyState EXCEPT ![s] = "connecting"]
          /\ sockUser' = [sockUser EXCEPT ![s] = userId]
          /\ sent' = [sent EXCEPT ![s] = <<>>]
          /\ ev' = Event(op, s, FALSE)
    /\ timers' = rest
    /\ thrown' = FALSE
    /\ calls' = <<>>
    /\ reconnectAttempts' = AttemptsAfterConnect(reconnectAttempts, op)
    /\ UNCHANGED <<isConnected, messageHandlers, consecutiveDrops, userClosed>>
    /\ UNCHANGED otherThanSocket

\* connect(userId) called by the application.
Connect(userId) == DoConnect(userId, "connect", timers)

\* The callback of setTimeout (App.js 427): connect(userId) again.
TimerFires(t) ==
    /\ BagIn(t, timers)
    /\ DoConnect(t.userId, "timer", timers (-) SetToBag({t}))

\* socket.onopen (App.js 388-399).
OnOpen(s) ==
    /\ readyState[s] = "connecting"
    /\ LET rs == [readyState EXCEPT ![s] = "open"]
           out == WsSend(TRUE, socket, rs, Announcement(sockUser[s]))
       IN /\ readyState' = rs
          /\ isConnected' = TRUE
          /\ reconnectAttempts' = AttemptsAfterOpen(reconnectAttempts)
          /\ thrown' = out.thrown
          /\ sent' = IF socket # NoSocket
                     THEN [sent EXCEPT ![socket] = Record(@, out.tx)]
                     ELSE sent
          /\ ev' = Event("open", s, out.tx # <<>>)
    /\ consecutiveDrops' = 0
    /\ calls' = <<>>
    /\ UNCHANGED <<socket, messageHandlers, sockUser, timers, userClosed>>
    /\ UNCHANGED otherThanSocket

\* socket.onclose (App.js 419-429): the connection dropped, failed to open,
\* or finished the closing handshake.
OnClose(s) ==
    /\ readyState[s] \in {"connecting", "open", "closing"}
    /\ readyState' = [readyState EXCEPT ![s] = "closed"]
    /\ isConnected' = FALSE
    /\ IF ShouldReconnect(reconnectAttempts)
       THEN /\ BagCardinality(timers) < MaxTimers
            /\ reconnectAttempts' = reconnectAttempts + 1
            /\ timers' = timers (+) SetToBag({[delay |-> ReconnectDelay(reconnectAttempts + 1),
                                               userId |-> sockUser[s]]})
            /\ ev' = Event("close", s, FALSE)
       ELSE /\ UNCHANGED <<reconnectAttempts, timers>>
            /\ ev' = Event("close", s, FALSE)
    /\ thrown' = FALSE
    /\ consecutiveDrops' = IF consecutiveDrops <= maxReconnectAttempts
                           THEN consecutiveDrops + 1 ELSE consecutiveDrops
    /\ sockUser' = [sockUser EXCEPT ![s] = NoUser]
    /\ sent' = [sent EXCEPT ![s] = <<>>]
    /\ userClosed' = userClosed \ {s}
    /\ calls' = <<>>
    /\ UNCHANGED <<socket, messageHandlers>>
    /\ UNCHANGED otherThanSocket

\* send(data) called by the application.
Send(data) ==
    /\ LET out == WsSend(isConnected, socket, readyState, data)
       IN /\ thrown' = out.thrown
          /\ sent' = IF socket # NoSocket
                     THEN [sent EXCEPT ![socket] = Record(@, out.tx)]
                     ELSE sent
          /\ ev' = Event("send", NoSocket, out.tx # <<>>)
    /\ calls' = <<>>
    /\ UNCHANGED <<socket, isConnected, messageHandlers, reconnectAttempts,
                   readyState, sockUser, timers, consecutiveDrops, userClosed>>
    /\ UNCHANGED otherThanSocket

\* disconnect() (App.js 456-462).
Disconnect ==
    /\ IF socket # NoSocket
       THEN /\ readyState' = [readyState EXCEPT ![socket] = SocketClose(@)]
            /\ socket' = NoSocket
            /\ isConnected' = FALSE
            /\ userClosed' = IF isConnected /\ readyState[socket] = "open"
                              THEN userClosed \cup {socket} ELSE userClosed
       ELSE UNCHANGED <<readyState, socket, isConnected, userClosed>>
    /\ thrown' = FALSE
    /\ ev' = Event("disconnect", NoSocket, FALSE)
    /\ calls' = <<>>
    /\ UNCHANGED <<messageHandlers, reconnectAttempts, sockUser, sent, timers,
                   consecutiveDrops>>
    /\ UNCHANGED otherThanSocket


(***************************************************************************)
(* Message handlers.                                                       *)
(***************************************************************************)
RECURSIVE Without(_, _)
\* messageHandlers.filter(h => h !== handler)
Without(hs, h) ==
    IF hs = <<>> THEN <<>>
    ELSE IF Head(hs) = h THEN Without(Tail(hs), h)
         ELSE <<Head(hs)>> \o Without(Tail(hs), h)

\* What calling handler h does to the handler list: the one-shot listener
\* calls removeMessageHandler on itself, the others leave the list alone.
AfterCall(h, hs) == IF h = "hOnce" THEN Without(hs, h) ELSE hs

RECURSIVE ForEachUnguarded(_, _, _, _)
\* forEach whose callback has no try/catch: the first throw ends the loop.
ForEachUnguarded(snapshot, i, data, acc) ==
    IF i > Len(snapshot) THEN acc
    ELSE LET h == snapshot[i]
             next == [calls |-> Append(acc.calls, [handler |-> h, data |-> data]),
                      handlers |-> AfterCall(h, acc.handlers)]
         IN IF h = "hThrow" THEN next
            ELSE ForEachUnguarded(snapshot, i + 1, data, next)

RECURSIVE ForEachHandler(_, _, _, _)
\* this.messageHandlers.forEach(handler => { try { handler(data) } catch ... })
\* (App.js 407-413): forEach walks the array it was called on, to the length
\* that array had; a handler's exception is caught and logged.
ForEachHandler(snapshot, i, data, acc) ==
    IF i > Len(snapshot) THEN acc
    ELSE LET h == snapshot[i]
         IN ForEachHandler(snapshot, i + 1, data,
                [calls |-> Append(acc.calls, [handler |-> h, data |-> data]),
                 handlers |-> AfterCall(h, acc.handlers)])

\* onmessage without the parse guard: the raw frame reaches the handlers.
HandleFrameUnparsed(frame, hs) ==
    ForEachHandler(hs, 1, JSONParse(frame).value, [calls |-> <<>>, handlers |-> hs])
        @@ [thrown |-> FALSE]

\* The body of socket.onmessage (App.js 401-417).
HandleFrame(frame, hs) ==
    LET parsed == JSONParse(frame)
    IN IF parsed.ok
       THEN ForEachHandler(hs, 1, parsed.value, [calls |-> <<>>, handlers |-> hs])
                @@ [thrown |-> FALSE]
       ELSE [calls |-> <<>>, handlers |-> hs, thrown |-> FALSE]

\* socket.onmessage for an inbound frame on an open socket.
OnMessage(s, frame) ==
    /\ readyState[s] = "open"
    /\ LET out == HandleFrame(frame, messageHandlers)
       IN /\ calls' = out.calls
          /\ messageHandlers' = out.handlers
          /\ thrown' = out.thrown
    /\ ev' = [Event("message", s, FALSE) EXCEPT !.frame = frame]
    /\ UNCHANGED <<socket, isConnected, reconnectAttempts, readyState, sockUser,
                   sent, timers, consecutiveDrops, userClosed>>
    /\ UNCHANGED otherThanSocket

\* addMessageHandler (App.js 448-450).
AddMessageHandler(h) ==
    /\ Len(messageHandlers) < MaxHandlers
    /\ messageHandlers' = Append(messageHandlers, h)
    /\ thrown' = FALSE
    /\ calls' = <<>>
    /\ ev' = Event("add", NoSocket, FALSE)
    /\ UNCHANGED <<socket, isConnected, reconnectAttempts, readyState, sockUser,
                   sent, timers, consecutiveDrops, userClosed>>
    /\ UNCHANGED otherThanSocket

\* removeMessageHandler (App.js 452-454).
RemoveMessageHandler(h) ==
    /\ messageHandlers' = Without(messageHandlers, h)
    /\ thrown' = FALSE
    /\ calls' = <<>>
    /\ ev' = Event("remove", NoSocket, FALSE)
    /\ UNCHANGED <<socket, isConnected, reconnectAttempts, readyState, sockUser,
                   sent, timers, consecutiveDrops, userClosed>>
    /\ UNCHANGED otherThanSocket

(***************************************************************************)
(* Text.  A text is a sequence of characters of four kinds: a letter "w",  *)
(* a space " ", a sentence end "." and an emoji "E".  These texts hold     *)
(* none of the keywords of extractKeyInfoForSpeech's rules 1 to 6.         *)
(***************************************************************************)
TextChars == {"w", " ", ".", "E"}
Texts == SeqsUpTo(TextChars, MaxTextLen)

RECURSIVE TrimStart(_)
TrimStart(t) == IF t # <<>> /\ Head(t) \in {" ", "\n"} THEN TrimStart(Tail(t)) ELSE t

RECURSIVE TrimEnd(_)
TrimEnd(t) ==
    IF t # <<>> /\ t[Len(t)] \in {" ", "\n"} THEN TrimEnd(SubSeq(t, 1, Len(t) - 1)) ELSE t

\* String.prototype.trim
Trim(t) == TrimEnd(TrimStart(t))

RECURSIVE StripEmoji(_)
\* replace(/[emoji ranges]/gu, '')
StripEmoji(t) ==
    IF t = <<>> THEN <<>>
    ELSE IF Head(t) = "E" THEN StripEmoji(Tail(t))
         ELSE <<Head(t)>> \o StripEmoji(Tail(t))

RECURSIVE SplitSentences(_, _)
\* text.split(/[.!?]+/): the pieces between runs of sentence ends (a run at
\* the start or the end of the text leaves an empty piece there).
SplitSentences(t, piece) ==
    IF t = <<>> THEN <<piece>>
    ELSE IF Head(t) = "."
         THEN IF Len(t) >= 2 /\ t[2] = "."
              THEN SplitSentences(Tail(t), piece)
              ELSE <<piece>> \o SplitSentences(Tail(t), <<>>)
         ELSE SplitSentences(Tail(t), Append(piece, Head(t)))

RECURSIVE NonBlank(_)
\* .filter(s => s.trim().length > 0)
NonBlank(pieces) ==
    IF pieces = <<>> THEN <<>>
    ELSE IF Trim(Head(pieces)) # <<>> THEN <<Head(pieces)>> \o NonBlank(Tail(pieces))
         ELSE NonBlank(Tail(pieces))

\* Pieces of a response text that the code searches for as a whole: marker
\* glyphs and phrases.
Newline == "\n"
Pin == "pin"                          \* the location pin glyph
PinDestination == "pin Destination:"  \* the pin glyph followed by " Destination:"
DistanceLabel == "ruler Distance:"
DurationLabel == "timer Duration:"
FoundNear == "Found 3 w near you"     \* a header the search patterns match
Paren == "(w)"                        \* text in parentheses
Star == "star"

Includes(text, pieces) == \E i \in 1..Len(text) : text[i] \in pieces
IndexOf(text, pieces) == MinOf({i \in 1..Len(text) : text[i] \in pieces})

RECURSIVE SplitLines(_, _)
\* content.split('\n')
SplitLines(t, piece) ==
    IF t = <<>> THEN <<piece>>
    ELSE IF Head(t) = Newline THEN <<piece>> \o SplitLines(Tail(t), <<>>)
         ELSE SplitLines(Tail(t), Append(piece, Head(t)))

\* content.split('\n').filter(line => line.trim())
Lines(text) == NonBlank(SplitLines(text, <<>>))

AirConditioning == "air conditioning"
TurnedOn == "turned on"
YouAreIn == "you are in"
TemperatureSet == "temperature set to"

\* The keywords of the rule ladder that a piece contains, as toLowerCase and
\* includes see them.
KeywordsOf(piece) ==
    CASE piece = YouAreIn -> {"you are in"}
      [] piece = FoundNear -> {"found", "near"}
      [] piece = DistanceLabel -> {"distance:"}
      [] piece = DurationLabel -> {"duration:"}
      [] piece = TemperatureSet -> {"temperature", "set"}
      [] piece = AirConditioning -> {"air conditioning"}
      [] piece = TurnedOn -> {"turned on"}
      [] piece = "turned off" -> {"turned off"}
      [] piece = "music" -> {"music"}
      [] piece = "playing" -> {"playing"}
      [] piece = "paused" -> {"paused"}
      [] piece = "volume" -> {"volume"}
      [] piece = "doors" -> {"doors"}
      [] piece = "locked" -> {"lock", "locked"}
      [] piece = "unlocked" -> {"lock", "locked", "unlocked"}
      [] piece = "lights" -> {"lights"}
      [] piece = "weather" -> {"weather"}
      [] piece = "sorry" -> {"sorry"}
      [] OTHER -> {}

\* cleanText.includes(keyword)
Has(text, keyword) == \E i \in 1..Len(text) : keyword \in KeywordsOf(text[i])

\* text.match(/(?:you are (?:in|at)|current location[:\s]+)([^.]+)/i): the
\* text captured after the leftmost phrase that is followed by something
\* other than a period, up to the next period; none is the empty text.
LocationMatch(text) ==
    LET starts == {i \in 1..Len(text) - 1 : text[i] = YouAreIn /\ text[i + 1] # "."}
    IN IF starts = {} THEN <<>>
       ELSE LET i == MinOf(starts)
                stops == {j \in i + 1..Len(text) : text[j] = "."}
            IN SubSeq(text, i + 1, IF stops = {} THEN Len(text) ELSE MinOf(stops) - 1)

RECURSIVE PlaceMatches(_, _)
\* text.match(/pin\s*([^star(]+?)(?:\s*\(|\s*star|$)/g) from piece i on, each
\* match without its pin and without a closing parenthesis: a name runs
\* from a pin to the next parenthesis or star, or to the end of the text.
PlaceMatches(text, i) ==
    IF i > Len(text) THEN <<>>
    ELSE IF text[i] = Pin /\ i < Len(text) /\ text[i + 1] \notin {Paren, Star}
    THEN LET stops == {j \in i + 1..Len(text) : text[j] \in {Paren, Star}}
             last == IF stops = {} THEN Len(text) ELSE MinOf(stops)
             name == SubSeq(text, i + 1, IF stops = {} THEN last ELSE last - 1)
         IN <<Trim(name \o (IF stops # {} /\ text[last] = Star THEN <<Star>> ELSE <<>>))>>
                \o PlaceMatches(text, last + 1)
    ELSE PlaceMatches(text, i + 1)

\* The sentence of rule 2 for the places found (Dashboard.js 84-98); the
\* header's count is 3.
PlaceSentence(places) ==
    <<"I found 3 w near you. ">> \o
    (IF Len(places) = 1 THEN <<"Including ">> \o places[1] \o <<".">>
     ELSE IF Len(places) = 2
     THEN <<"Including ">> \o places[1] \o <<" and ">> \o places[2] \o <<".">>
     ELSE <<"Including ">> \o places[1] \o <<", ">> \o places[2] \o <<", and ">>
              \o places[3] \o <<".">>)

RECURSIVE StripMarks(_)
\* replace(/glyph/g, '') of the pin, ruler and timer glyphs: a label keeps
\* its words.
StripMarks(t) ==
    IF t = <<>> THEN <<>>
    ELSE (CASE Head(t) = Pin -> <<>>
            [] Head(t) = PinDestination -> <<" ", "Destination:">>
            [] Head(t) = DistanceLabel -> <<" ", "Distance:">>
            [] Head(t) = DurationLabel -> <<" ", "Duration:">>
            [] OTHER -> <<Head(t)>>) \o StripMarks(Tail(t))

FirstLineWith(lines, pieces) ==
    LET hits == {k \in 1..Len(lines) : Includes(lines[k], pieces)}
    IN IF hits = {} THEN <<>> ELSE lines[MinOf(hits)]

\* Rule 3 (Dashboard.js 105-126).
NavigationSummary(text) ==
    LET lines == Lines(text)
        distanceLine == FirstLineWith(lines, {DistanceLabel})
        durationLine == FirstLineWith(lines, {DurationLabel})
        dests == {k \in 1..Len(lines) :
                     /\ Includes(lines[k], {Pin, PinDestination})
                     /\ ~Includes(lines[k], {DistanceLabel, DurationLabel})}
        response ==
            (IF dests = {} THEN <<>>
             ELSE <<"Navigation to ">> \o Trim(StripMarks(lines[MinOf(dests)])) \o <<". ">>)
            \o (IF distanceLine = <<>> THEN <<>>
                ELSE Trim(StripMarks(distanceLine)) \o <<". ">>)
            \o (IF durationLine = <<>> THEN <<>>
                ELSE Trim(StripMarks(durationLine)) \o <<".">>)
    IN IF response = <<>> THEN <<"Navigation route calculated.">> ELSE response

TaskCompleted == <<"Task completed.">>

\* Rule 7, the general rule (Dashboard.js 191-208).
GeneralSummary(text) ==
    LET sentences == NonBlank(SplitSentences(text, <<>>))
    IN IF Len(sentences) > 0
       THEN LET first == StripEmoji(Trim(sentences[1]))
            IN IF Len(first) < SecondSentenceLimit /\ Len(sentences) > 1
               THEN first \o <<".", " ">> \o Trim(StripEmoji(sentences[2]))
               ELSE first
       ELSE TaskCompleted

\* The rules after the vehicle controls (Dashboard.js 168-208): weather,
\* error messages, general.  The texts hold no degree sign and no
\* "Condition:" or "Weather:" line.
AfterControls(text) ==
    IF Has(text, "weather") \/ Has(text, "temperature")
    THEN <<"Weather information retrieved.">>
    ELSE IF Has(text, "sorry") \/ Has(text, "error") \/ Has(text, "issue")
    THEN <<"Sorry, I encountered an issue. Please try again.">>
    ELSE GeneralSummary(text)

\* The door and light rules (Dashboard.js 152-166).
DoorsAndLights(text) ==
    IF (Has(text, "doors") \/ Has(text, "lock")) /\ Has(text, "locked")
    THEN <<"Doors locked.">>
    ELSE IF (Has(text, "doors") \/ Has(text, "lock")) /\ Has(text, "unlocked")
    THEN <<"Doors unlocked.">>
    ELSE IF Has(text, "lights") /\ (Has(text, "turned on") \/ Has(text, "enabled"))
    THEN <<"Lights turned on.">>
    ELSE IF Has(text, "lights") /\ (Has(text, "turned off") \/ Has(text, "disabled"))
    THEN <<"Lights turned off.">>
    ELSE AfterControls(text)

\* The vehicle-control rules (Dashboard.js 128-150): temperature, air
\* conditioning, music.
VehicleControls(text) ==
    IF Has(text, "temperature") /\ (Has(text, "set") \/ Has(text, "adjust"))
    THEN <<"Temperature adjusted.">>
    ELSE IF (Has(text, "air conditioning") \/ Has(text, "ac"))
            /\ (Has(text, "turned on") \/ Has(text, "enabled"))
    THEN <<"Air conditioning turned on.">>
    ELSE IF (Has(text, "air conditioning") \/ Has(text, "ac"))
            /\ (Has(text, "turned off") \/ Has(text, "disabled"))
    THEN <<"Air conditioning turned off.">>
    ELSE IF (Has(text, "music") \/ Has(text, "song"))
            /\ (Has(text, "playing") \/ Has(text, "started"))
    THEN <<"Music started.">>
    ELSE IF (Has(text, "music") \/ Has(text, "song"))
            /\ (Has(text, "paused") \/ Has(text, "stopped"))
    THEN <<"Music paused.">>
    ELSE IF (Has(text, "music") \/ Has(text, "song")) /\ Has(text, "volume")
    THEN <<"Volume adjusted.">>
    ELSE DoorsAndLights(text)

\* extractKeyInfoForSpeech (Dashboard.js 58-209): the blank test, then the
\* first rule of the ladder that returns.
ExtractKeyInfoForSpeech(text) ==
    IF Trim(text) = <<>> THEN <<>>
    ELSE IF (Has(text, "your current location") \/ Has(text, "you are in")
                \/ Has(text, "you are at")) /\ LocationMatch(text) # <<>>
    THEN <<"You are in ">> \o Trim(LocationMatch(text))
    ELSE IF Has(text, "found") /\ Has(text, "near") /\ Includes(text, {FoundNear})
            /\ PlaceMatches(text, 1) # <<>>
    THEN PlaceSentence(PlaceMatches(text, 1))
    ELSE IF Has(text, "distance:") /\ Has(text, "duration:")
    THEN NavigationSummary(text)
    ELSE VehicleControls(text)

(***************************************************************************)
(* The assistant of Dashboard.js: text and voice sends, and speech.        *)
(***************************************************************************)
Methods == {"text", "voice"}

AEvent(op) == [op |-> op]

\* result.response of an OK reply: a text with nothing to speak and one
\* with a sentence to speak.
ReplyTexts == {<<" ">>, <<"w">>}

\* speakText's speechText for each response (Dashboard.js 563).
SpeechOf == [t \in ReplyTexts |-> ExtractKeyInfoForSpeech(t)]

\* speakText (Dashboard.js 559-591) with the isSpeaking of the render whose
\* closure runs: whether an utterance is given to speechSynthesis.speak.
Speaks(capSpeaking, text) ==
    ~capSpeaking /\ Trim(SpeechOf[text]) # <<>>

\* The entries of the transcript (Dashboard.js 600-606, 648-656, 701-709):
\* send is the number of the handleSendMessage call that appended the entry.
UserMessage(message, send) ==
    [type |-> "user", content |-> message, send |-> send]

BotResponse(text, send) ==
    [type |-> "assistant", content |-> text, send |-> send]

\* The message of the error caught at Dashboard.js 699: the TypeError of a
\* fetch that failed, or the Error thrown at 697 for a status that is not OK.
FailedToFetch == "Failed to fetch"
FailedToGetResponse == "Failed to get response from assistant"
Errors == {FailedToFetch, FailedToGetResponse}

ApologyShowsError(method, error) ==
    <<"Sorry, I encountered an issue processing your ", method, " command: ", error>>

\* The template literal of Dashboard.js 703.
ApologyContent(method, error) ==
    <<"Sorry, I encountered an issue processing your ", method,
      " command. Please try again.">>

ErrorResponse(method, error, send) ==
    [type |-> "assistant", content |-> ApologyContent(method, error), send |-> send]

\* The synchronous part of handleSendMessage (Dashboard.js 596-638), called
\* by a render whose isSpeaking is capSpeaking.
HandleSendMessage(message, method, capSpeaking) ==
    IF Trim(message) = <<>>
    THEN UNCHANGED <<isLoading, requests, assistantMessage, chatHistory, sends>>
    ELSE /\ BagCardinality(requests) < MaxRequests
         /\ sends < MaxSends
         /\ sends' = sends + 1
         /\ isLoading' = TRUE
         /\ chatHistory' = Append(chatHistory, UserMessage(message, sends + 1))
         /\ requests' = requests (+) SetToBag({[method |-> method,
                                                capSpeaking |-> capSpeaking,
                                                send |-> sends + 1]})
         /\ assistantMessage' = IF method = "text" THEN <<>> ELSE assistantMessage

\* The user edits the text input (disabled while loading, Dashboard.js 1418).
TypeText(t) ==
    /\ ~loggedOut /\ ~isLoading
    /\ assistantMessage' = t
    /\ aev' = AEvent("type")
    /\ UNCHANGED <<isLoading, isListening, isSpeaking, rec, recCap, requests,
                   chatHistory, sends, utterances, spoken, loggedOut>>
    /\ UNCHANGED otherThanAssistant

\* Enter in the input or the send button (Dashboard.js 1415-1432): both are
\* disabled while loading; the button also while the input is blank.
SendText ==
    /\ ~loggedOut /\ ~isLoading
    /\ HandleSendMessage(assistantMessage, "text", isSpeaking)
    /\ aev' = AEvent("sendText")
    /\ UNCHANGED <<isListening, isSpeaking, rec, recCap, utterances, spoken, loggedOut>>
    /\ UNCHANGED otherThanAssistant

StopWaitsForEnd == UNCHANGED <<isListening, rec, recCap>>

\* stopVoiceRecognition (Dashboard.js 551-557) called while listening:
\* recognition.stop() asks the session to end, which it reports by its end
\* event; the indicator is cleared at once.
StopVoiceRecognition ==
    /\ isListening' = FALSE
    /\ UNCHANGED <<rec, recCap>>

\* The voice button (Dashboard.js 1421-1428, disabled while loading):
\* startVoiceRecognition (507-549), which stops when listening (551-557).
\* recognition.start() on a session that has not ended throws after the
\* indicator and the handlers are set.
VoiceButton ==
    /\ ~loggedOut /\ ~isLoading
    /\ IF isListening
       THEN /\ StopVoiceRecognition
            /\ aev' = AEvent("stopVoice")
       ELSE /\ isListening' = TRUE
            /\ recCap' = isSpeaking
            /\ rec' = IF rec = "idle" THEN "listening" ELSE rec
            /\ aev' = AEvent("startVoice")
    /\ UNCHANGED <<isLoading, isSpeaking, assistantMessage, requests, chatHistory,
                   sends, utterances, spoken, loggedOut>>
    /\ UNCHANGED otherThanAssistant

\* recognition.onresult (Dashboard.js 522-528): the transcript is sent.
VoiceResult(transcript) ==
    /\ ~loggedOut
    /\ rec = "listening"
    /\ rec' = "resulted"
    /\ HandleSendMessage(transcript, "voice", recCap)
    /\ aev' = [op |-> "voiceResult", message |-> transcript]
    /\ UNCHANGED <<isListening, isSpeaking, recCap, utterances, spoken, loggedOut>>
    /\ UNCHANGED otherThanAssistant

\* recognition.onend, also after onerror (Dashboard.js 530-546).
VoiceEnd ==
    /\ ~loggedOut
    /\ rec \in {"listening", "resulted"}
    /\ rec' = "idle"
    /\ isListening' = FALSE
    /\ aev' = AEvent("voiceEnd")
    /\ UNCHANGED <<isLoading, isSpeaking, assistantMessage, recCap, requests,
                   chatHistory, sends, utterances, spoken, loggedOut>>
    /\ UNCHANGED otherThanAssistant

\* The backend answers one send with a response text: the rest of
\* handleSendMessage for response.ok (Dashboard.js 640-698, 710-713).
ReplyOk(r, text) ==
    /\ ~loggedOut
    /\ BagIn(r, requests)
    /\ requests' = requests (-) SetToBag({r})
    /\ isLoading' = FALSE
    /\ chatHistory' = Append(chatHistory, BotResponse(text, r.send))
    /\ IF r.method = "voice" /\ Speaks(r.capSpeaking, text)
       THEN /\ utterances < MaxUtterances
            /\ utterances' = utterances + 1
            /\ isSpeaking' = TRUE
            /\ spoken' = SpeechOf[text]
            /\ aev' = AEvent("replySpoken")
       ELSE /\ UNCHANGED <<utterances, isSpeaking, spoken>>
            /\ aev' = AEvent("reply")
    /\ UNCHANGED <<isListening, assistantMessage, rec, recCap, sends, loggedOut>>
    /\ UNCHANGED otherThanAssistant

\* The failure logged and nothing shown.
ReplyFailSilent(r, error) ==
    /\ ~loggedOut
    /\ BagIn(r, requests)
    /\ requests' = requests (-) SetToBag({r})
    /\ isLoading' = FALSE
    /\ aev' = [op |-> "replyFail", error |-> error]
    /\ UNCHANGED <<isListening, isSpeaking, assistantMessage, rec, recCap,
                   chatHistory, sends, utterances, spoken, loggedOut>>
    /\ UNCHANGED otherThanAssistant

\* The send fails: a network error or a status that is neither OK nor 401
\* (Dashboard.js 699-713).
ReplyFail(r, error) ==
    /\ ~loggedOut
    /\ BagIn(r, requests)
    /\ requests' = requests (-) SetToBag({r})
    /\ isLoading' = FALSE
    /\ chatHistory' = Append(chatHistory, ErrorResponse(r.method, error, r.send))
    /\ aev' = [op |-> "replyFail", error |-> error]
    /\ UNCHANGED <<isListening, isSpeaking, assistantMessage, rec, recCap,
                   sends, utterances, spoken, loggedOut>>
    /\ UNCHANGED otherThanAssistant

\* The backend answers 401: checkAuthAndLogout (Dashboard.js 460-468, 640)
\* logs the user out and handleSendMessage returns through its finally.
Reply401(r) ==
    /\ ~loggedOut
    /\ BagIn(r, requests)
    /\ requests' = requests (-) SetToBag({r})
    /\ isLoading' = FALSE
    /\ loggedOut' = TRUE
    /\ aev' = AEvent("reply401")
    /\ UNCHANGED <<isListening, isSpeaking, assistantMessage, rec, recCap,
                   chatHistory, sends, utterances, spoken>>
    /\ UNCHANGED otherThanAssistant

\* utterance.onend or utterance.onerror (Dashboard.js 580-588).
UtteranceEnd ==
    /\ ~loggedOut
    /\ utterances > 0
    /\ utterances' = utterances - 1
    /\ isSpeaking' = FALSE
    /\ aev' = AEvent("utteranceEnd")
    /\ UNCHANGED <<isLoading, isListening, assistantMessage, rec, recCap, requests,
                   chatHistory, sends, spoken, loggedOut>>
    /\ UNCHANGED otherThanAssistant

\* The mounted dashboard with its voice capabilities initialised
\* (Dashboard.js 36-55, 212-236).
InitAssistant ==
    /\ isLoading = FALSE
    /\ isListening = FALSE
    /\ isSpeaking = FALSE
    /\ assistantMessage = <<>>
    /\ rec = "idle"
    /\ recCap = FALSE
    /\ requests = EmptyBag
    /\ chatHistory = <<>>
    /\ sends = 0
    /\ utterances = 0
    /\ spoken = <<>>
    /\ loggedOut = FALSE
    /\ aev = AEvent("init")

NextAssistant ==
    \/ \E t \in {<<>>, <<" ">>, <<"w">>} : TypeText(t)
    \/ SendText
    \/ VoiceButton
    \/ \E t \in {<<" ">>, <<"w">>} : VoiceResult(t)
    \/ VoiceEnd
    \/ \E r \in BagToSet(requests), t \in ReplyTexts : ReplyOk(r, t)
    \/ \E r \in BagToSet(requests), e \in Errors : ReplyFail(r, e)
    \/ \E r \in BagToSet(requests) : Reply401(r)
    \/ UtteranceEnd

(***************************************************************************)
(* The history tab of Dashboard.js: groupInteractionsBySessions.           *)
(* A timestamp is the number of milliseconds new Date(timestamp) gives;    *)
(* the calendar date of toDateString is taken in UTC.                      *)
(***************************************************************************)
\* Day 0 at 10:00, 10:30, 10:45, 11:00 and 23:50, day 1 at 00:10.
TimePoints == {36000000, 37800000, 38700000, 39600000, 85800000, 87000000}
\* Day 1 at 12:00.
Nows == {129600000}
\* A field the backend left out (undefined or null).
NullText == <<"null">>
\* A user turn is whitespace or a word; an agent turn is missing or a word.
UserInputs == {<<" ">>, <<"w">>}
AgentResponses == {NullText, <<"w">>}

\* Date.prototype.toDateString: the calendar day.
ToDateString(t) == t \div DayMs

\* formatSessionDate (Dashboard.js 421-439).
FormatSessionDate(date, clock) ==
    LET diffDays == (clock - date) \div DayMs
    IN IF diffDays = 0 THEN [label |-> "Today", n |-> 0]
       ELSE IF diffDays = 1 THEN [label |-> "Yesterday", n |-> 0]
       ELSE IF diffDays < 7 THEN [label |-> "days ago", n |-> diffDays]
       ELSE [label |-> "date", n |-> ToDateString(date)]

RECURSIVE InsertByTimestamp(_, _)
\* One step of the stable sort: x goes after every element that does not
\* compare greater (a.timestamp - b.timestamp <= 0).
InsertByTimestamp(sorted, x) ==
    IF sorted = <<>> THEN <<x>>
    ELSE IF Head(sorted).timestamp - x.timestamp > 0
         THEN <<x>> \o sorted
         ELSE <<Head(sorted)>> \o InsertByTimestamp(Tail(sorted), x)

RECURSIVE SortByTimestamp(_)
\* [...interactions].sort((a, b) => new Date(a.timestamp) - new Date(b.timestamp))
\* (Dashboard.js 344-346): Array.prototype.sort is stable.
SortByTimestamp(list) ==
    IF list = <<>> THEN <<>>
    ELSE InsertByTimestamp(SortByTimestamp(SubSeq(list, 1, Len(list) - 1)), list[Len(list)])

\* interaction.user_input && interaction.user_input.trim() (Dashboard.js 383, 396)
HasText(t) == t # NullText /\ t # <<>> /\ Trim(t) # <<>>

Message(type, text, interaction) ==
    [type |-> type, content |-> text, timestamp |-> interaction.timestamp,
     agent_id |-> interaction.agent_id]

\* The messages one interaction adds (Dashboard.js 381-406): the user turn,
\* then the agent turn.
MessagesOfAgentFirst(interaction) ==
    (IF HasText(interaction.agent_response)
     THEN <<Message("assistant", interaction.agent_response, interaction)>> ELSE <<>>)
    \o (IF HasText(interaction.user_input)
        THEN <<Message("user", interaction.user_input, interaction)>> ELSE <<>>)

MessagesOf(interaction) ==
    (IF HasText(interaction.user_input)
     THEN <<Message("user", interaction.user_input, interaction)>> ELSE <<>>)
    \o (IF HasText(interaction.agent_response)
        THEN <<Message("assistant", interaction.agent_response, interaction)>> ELSE <<>>)

\* The test with the gap measured from the session's start and taken at 30
\* minutes or more.
StartsNewSessionFromStart(acc, interaction) ==
    \/ acc = <<>>
    \/ acc[Len(acc)].date # ToDateString(interaction.timestamp)
    \/ interaction.timestamp - acc[Len(acc)].startTime >= SessionGapMs

\* The test that starts a new session (Dashboard.js 364-366); acc is the
\* list of sessions so far, its last element the current session.
StartsNewSession(acc, interaction) ==
    \/ acc = <<>>
    \/ acc[Len(acc)].date # ToDateString(interaction.timestamp)
    \/ interaction.timestamp - acc[Len(acc)].lastInteraction > SessionGapMs

\* The session object of Dashboard.js 368-376; the id's Date.now() and
\* Math.random() parts are left out, its index part kept.
NewSession(interaction, i, clock) ==
    [id |-> i,
     date |-> ToDateString(interaction.timestamp),
     displayDate |-> FormatSessionDate(interaction.timestamp, clock),
     startTime |-> interaction.timestamp,
     lastInteraction |-> interaction.timestamp,
     interactions |-> <<>>,
     messageCount |-> 0]

\* The loop body counting one message per interaction.
GroupStepCountsInteractions(acc, interaction, i, clock) ==
    LET opened == IF StartsNewSession(acc, interaction)
                  THEN Append(acc, NewSession(interaction, i, clock))
                  ELSE acc
        cur == opened[Len(opened)]
    IN [opened EXCEPT ![Len(opened)] =
            [cur EXCEPT !.interactions = @ \o MessagesOf(interaction),
                        !.messageCount = @ + 1,
                        !.lastInteraction = interaction.timestamp]]

\* The loop body passing over an interaction that has no text.
GroupStepSkipsBlank(acc, interaction, i, clock) ==
    IF MessagesOf(interaction) = <<>> THEN acc
    ELSE LET opened == IF StartsNewSession(acc, interaction)
                       THEN Append(acc, NewSession(interaction, i, clock))
                       ELSE acc
             cur == opened[Len(opened)]
             msgs == MessagesOf(interaction)
         IN [opened EXCEPT ![Len(opened)] =
                 [cur EXCEPT !.interactions = @ \o msgs,
                             !.messageCount = @ + Len(msgs),
                             !.lastInteraction = interaction.timestamp]]

\* One pass of the loop body (Dashboard.js 348-409).
GroupStep(acc, interaction, i, clock) ==
    LET opened == IF StartsNewSession(acc, interaction)
                  THEN Append(acc, NewSession(interaction, i, clock))
                  ELSE acc
        cur == opened[Len(opened)]
        msgs == MessagesOf(interaction)
    IN [opened EXCEPT ![Len(opened)] =
            [cur EXCEPT !.interactions = @ \o msgs,
                        !.messageCount = @ + Len(msgs),
                        !.lastInteraction = interaction.timestamp]]

RECURSIVE GroupLoop(_, _, _, _)
GroupLoop(sorted, i, acc, clock) ==
    IF i > Len(sorted) THEN acc
    ELSE GroupLoop(sorted, i + 1, GroupStep(acc, sorted[i], i - 1, clock), clock)

\* The sessions left in the order they were created.
ReverseNot(list) == list

Reverse(list) == [k \in 1..Len(list) |-> list[Len(list) + 1 - k]]

\* groupInteractionsBySessions (Dashboard.js 335-418).
GroupInteractionsBySessions(list, clock) ==
    IF Len(list) = 0 THEN <<>>
    ELSE Reverse(GroupLoop(SortByTimestamp(list), 1, <<>>, clock))

Interactions ==
    [timestamp : TimePoints, user_input : UserInputs, agent_response : AgentResponses]

Tagged(list) ==
    [k \in 1..Len(list) |->
        [timestamp |-> list[k].timestamp, user_input |-> list[k].user_input,
         agent_response |-> list[k].agent_response, agent_id |-> k]]

RECURSIVE SeqsOfLen(_, _)
SeqsOfLen(S, n) ==
    IF n = 0 THEN {<<>>}
    ELSE {Append(q, x) : q \in SeqsOfLen(S, n - 1), x \in S}

HEvent(op, reconstructed) == [op |-> op, reconstructed |-> reconstructed]

\* No history fetch made yet (Dashboard.js 43-46).
LoadIdle ==
    /\ historyLoading = FALSE
    /\ historyError = ""
    /\ historyFetches = 0
    /\ hev = HEvent("init", FALSE)

\* The history tab before its fetch.
NoHistory ==
    /\ LoadIdle
    /\ interactions = <<>>
    /\ now \in Nows
    /\ sessions = <<>>
    /\ grouped = FALSE

\* A fetched history of at most MaxInteractions interactions in any order,
\* the k-th carrying agent_id k.
InitHistory ==
    /\ LoadIdle
    /\ \E n \in 0..MaxInteractions :
          \E list \in SeqsOfLen(Interactions, n) : interactions = Tagged(list)
    /\ now \in Nows
    /\ sessions = <<>>
    /\ grouped = FALSE

\* loadPersistentHistory hands the fetched list to groupInteractionsBySessions
\* and stores the result (Dashboard.js 309-310).
Reconstruct ==
    /\ ~grouped
    /\ sessions' = GroupInteractionsBySessions(interactions, now)
    /\ grouped' = TRUE
    /\ UNCHANGED <<interactions, now, loadVars>>
    /\ UNCHANGED otherThanHistory

\* What the backend can answer to the history fetch: a status, and for an OK
\* answer a body with or without a recent_interactions array.
FetchedInteractions ==
    {x \in Interactions : x.timestamp \in {36000000, 85800000}}
FetchedLists == UNION {SeqsOfLen(FetchedInteractions, n) : n \in 0..MaxFetched}

\* loadPersistentHistory where a 401 is treated like any other status that
\* is not OK.
LoadAnswerNo401Check(status, hasList, list, stored, error, clock) ==
    IF status = "ok"
    THEN IF hasList
         THEN [stored |-> GroupInteractionsBySessions(Tagged(list), clock),
               reconstructed |-> TRUE, logout |-> FALSE, error |-> error]
         ELSE [stored |-> <<>>, reconstructed |-> FALSE, logout |-> FALSE,
               error |-> error]
    ELSE [stored |-> <<>>, reconstructed |-> FALSE, logout |-> FALSE,
          error |-> "Failed to load chat history"]

\* The part of loadPersistentHistory after the fetch settles (Dashboard.js
\* 294-321): what it stores, whether it ran groupInteractionsBySessions,
\* whether it called onLogout, and the error text it leaves.
LoadAnswer(status, hasList, list, stored, error, clock) ==
    IF status = "401"
    THEN [stored |-> stored, reconstructed |-> FALSE, logout |-> TRUE, error |-> error]
    ELSE IF status = "ok"
    THEN IF hasList
         THEN [stored |-> GroupInteractionsBySessions(Tagged(list), clock),
               reconstructed |-> TRUE, logout |-> FALSE, error |-> error]
         ELSE [stored |-> <<>>, reconstructed |-> FALSE, logout |-> FALSE,
               error |-> error]
    ELSE [stored |-> <<>>, reconstructed |-> FALSE, logout |-> FALSE,
          error |-> "Failed to load chat history"]

\* The history tab becomes the active tab: the effect starts
\* loadPersistentHistory up to its fetch (Dashboard.js 287-292).
OpenHistoryTab ==
    /\ ~loggedOut
    /\ historyFetches < MaxFetches
    /\ historyLoading' = TRUE
    /\ historyError' = ""
    /\ historyFetches' = historyFetches + 1
    /\ hev' = HEvent("open", FALSE)
    /\ UNCHANGED <<interactions, now, sessions, grouped>>
    /\ UNCHANGED otherThanHistory

\* A history fetch settles and loadPersistentHistory runs to its end, its
\* finally block included (Dashboard.js 294-324).
Settle(op, status, hasList, list) ==
    /\ ~loggedOut
    /\ historyFetches > 0
    /\ historyFetches' = historyFetches - 1
    /\ LET out == LoadAnswer(status, hasList, list, sessions, historyError, now)
       IN /\ sessions' = out.stored
          /\ historyError' = out.error
          /\ loggedOut' = out.logout
          /\ grouped' = out.reconstructed
          /\ interactions' = IF out.reconstructed THEN Tagged(list) ELSE interactions
          /\ hev' = HEvent(op, out.reconstructed)
    /\ historyLoading' = FALSE
    /\ UNCHANGED now
    /\ UNCHANGED <<isLoading, isListening, isSpeaking, assistantMessage, rec, recCap,
                   requests, chatHistory, sends, utterances, spoken, aev>>
    /\ UNCHANGED <<socketVars, formatVars>>

\* The backend answers 401.
Answer401 == Settle("answer401", "401", FALSE, <<>>)

\* The backend answers OK with a recent_interactions array.
AnswerOk(list) == Settle("answerOk", "ok", TRUE, list)

\* The backend answers OK without a recent_interactions array.
AnswerNoList == Settle("answerNoList", "ok", FALSE, <<>>)

\* The backend answers another status, or the fetch fails.
AnswerFail(status) == Settle("answerFail", status, FALSE, <<>>)

(***************************************************************************)
(* Response formatting of Dashboard.js: formatResponse and the formatters  *)
(* it dispatches to.  A response text is a sequence of pieces: a line      *)
(* break, a space, a word, a marker glyph, or a phrase that the code       *)
(* searches for as a whole.  What a formatter renders is recorded as the   *)
(* variant of the component it returns with the fields it shows.           *)
(***************************************************************************)
MapsLabel == "globe Open in Google Maps:"
Compass == "compass"
Clipboard == "clipboard"
TurnByTurn == "Turn-by-turn directions"
Magnifier == "magnifier"
Cross == "cross"                      \* the error glyph
Numbered == "1."                      \* digits and a period
OpenGlyph == "green"
ClosedGlyph == "red"
Postbox == "postbox"
LoneSurrogate == "\\uD800"            \* half of a surrogate pair

\* The pieces generated texts are made of.
ContentPieces ==
    {Newline, " ", "w", Compass, Pin, PinDestination, Magnifier, Cross, Numbered,
     FoundNear, LoneSurrogate}




\* line.replace(phrase, ''): the first occurrence is removed.
RemoveFirst(line, phrase) ==
    IF Includes(line, {phrase})
    THEN SubSeq(line, 1, IndexOf(line, {phrase}) - 1)
             \o SubSeq(line, IndexOf(line, {phrase}) + 1, Len(line))
    ELSE line

\* line.replace(pin, ''): of a pin followed by " Destination:" the label stays.
RemovePin(line) ==
    IF Includes(line, {Pin, PinDestination})
    THEN LET i == IndexOf(line, {Pin, PinDestination})
         IN SubSeq(line, 1, i - 1)
                \o (IF line[i] = PinDestination THEN <<" ", "Destination:">> ELSE <<>>)
                \o SubSeq(line, i + 1, Len(line))
    ELSE line

RECURSIVE StripGlyphs(_)
\* name.replace(/[star, open, closed, postbox]/g, '')
StripGlyphs(t) ==
    IF t = <<>> THEN <<>>
    ELSE IF Head(t) \in {Star, OpenGlyph, ClosedGlyph, Postbox} THEN StripGlyphs(Tail(t))
         ELSE <<Head(t)>> \o StripGlyphs(Tail(t))

\* formatGeneralResponse (Dashboard.js 1197-1234); the texts hold no maps URL.
FormatGeneralResponse(text) == [variant |-> "General", text |-> text]

\* formatLocationResponse (Dashboard.js 1184-1195).
FormatLocationResponse(text) ==
    [variant |-> "Location", text |-> Trim(RemovePin(Lines(text)[1]))]

\* What the loop of formatDirectionsResponse makes of one line
\* (Dashboard.js 1047-1069): the first branch that applies, in the code's order.
DirectionsLine(acc, line) ==
    LET trimmedLine == Trim(line)
    IN IF Includes(trimmedLine, {PinDestination})
       THEN [acc EXCEPT !.destination = Trim(RemoveFirst(trimmedLine, PinDestination))]
       ELSE IF Includes(trimmedLine, {DistanceLabel})
       THEN [acc EXCEPT !.distance = Trim(RemoveFirst(trimmedLine, DistanceLabel))]
       ELSE IF Includes(trimmedLine, {DurationLabel})
       THEN [acc EXCEPT !.duration = Trim(RemoveFirst(trimmedLine, DurationLabel))]
       ELSE IF Includes(trimmedLine, {MapsLabel})
       THEN acc
       ELSE IF trimmedLine # <<>> /\ Head(trimmedLine) = Numbered
       THEN [acc EXCEPT !.directions = Append(@, trimmedLine)]
       ELSE IF Includes(trimmedLine, {Cross})
       THEN [acc EXCEPT !.hasError = TRUE]
       ELSE acc

RECURSIVE DirectionsScan(_, _, _)
DirectionsScan(lines, i, acc) ==
    IF i > Len(lines) THEN acc
    ELSE DirectionsScan(lines, i + 1, DirectionsLine(acc, lines[i]))

\* formatDirectionsResponse (Dashboard.js 1034-1182).
FormatDirectionsResponse(text) ==
    LET scan == DirectionsScan(Lines(text), 1,
                    [destination |-> <<>>, distance |-> <<>>, duration |-> <<>>,
                     directions |-> <<>>, hasError |-> FALSE])
    IN IF scan.hasError \/ scan.destination = <<>>
       THEN [variant |-> "Error", raw |-> text]
       ELSE [variant |-> "Directions", destination |-> scan.destination,
             distance |-> scan.distance, duration |-> scan.duration,
             steps |-> scan.directions]

\* The place of one line after the header (Dashboard.js 895-963): none when
\* the line is not a numbered entry or has no name.
PlaceOf(line) ==
    LET trimmed == Trim(line)
        entry == IF trimmed # <<>> /\ Head(trimmed) = Numbered
                 THEN TrimStart(Tail(trimmed)) ELSE <<>>
        cleanLine == Trim(RemovePin(entry))
        raw == IF Includes(cleanLine, {Paren})
               THEN SubSeq(cleanLine, 1, IndexOf(cleanLine, {Paren}) - 1)
               ELSE IF Includes(cleanLine, {Star})
               THEN SubSeq(cleanLine, 1, IndexOf(cleanLine, {Star}) - 1)
               ELSE cleanLine
        after == IF Includes(cleanLine, {Paren})
                 THEN SubSeq(cleanLine, IndexOf(cleanLine, {Paren}) + 1, Len(cleanLine))
                 ELSE <<>>
        name == Trim(StripGlyphs(Trim(raw)))
    IN IF name = <<>> THEN <<>>
       ELSE <<[name |-> name,
               distance |-> Includes(cleanLine, {Paren}),
               status |-> IF Includes(after, {OpenGlyph}) THEN "Open"
                          ELSE IF Includes(after, {ClosedGlyph}) THEN "Closed"
                          ELSE ""]>>

RECURSIVE PlacesOf(_, _)
PlacesOf(lines, i) ==
    IF i > Len(lines) THEN <<>>
    ELSE PlaceOf(lines[i]) \o PlacesOf(lines, i + 1)

\* encodeURIComponent raises URIError on a lone surrogate.
EncodeThrows(places) ==
    \E k \in 1..Len(places) : Includes(places[k].name, {LoneSurrogate})

\* formatPlaceSearchResponse (Dashboard.js 878-1031).
FormatPlaceSearchResponse(text) ==
    LET lines == Lines(text)
    IN IF ~Includes(lines[1], {FoundNear})
       THEN FormatGeneralResponse(text)
       ELSE IF EncodeThrows(PlacesOf(lines, 2))
       THEN [variant |-> "Throws", error |-> "URIError"]
       ELSE [variant |-> "PlaceSearch", count |-> 3, category |-> <<"w">>,
             entries |-> PlacesOf(lines, 2)]

\* The tests of formatResponse (Dashboard.js 1240-1244).
IsDirections(text) == Includes(text, {TurnByTurn, Clipboard, Compass})
IsLocation(text) ==
    Includes(text, {Pin, PinDestination}) /\ Len(SplitLines(text, <<>>)) <= 3
IsPlaceSearch(text) == Includes(text, {FoundNear}) \/ Includes(text, {Magnifier})

\* formatResponse (Dashboard.js 1236-1250).
FormatResponse(text) ==
    IF text = <<>> THEN [variant |-> "NoContent"]
    ELSE IF IsDirections(text) THEN FormatDirectionsResponse(text)
    ELSE IF IsLocation(text) THEN FormatLocationResponse(text)
    ELSE IF IsPlaceSearch(text) THEN FormatPlaceSearchResponse(text)
    ELSE FormatGeneralResponse(text)

\* Every text of at most MaxContentLen pieces.
GeneratedTexts == SeqsUpTo(ContentPieces, MaxContentLen)

RECURSIVE EntryLines(_, _, _, _)
\* n numbered entries, each on its own line after the header.
EntryLines(n, pinned, name, glyph) ==
    IF n = 0 THEN <<>>
    ELSE EntryLines(n - 1, pinned, name, glyph)
         \o <<Newline, Numbered, " ">> \o (IF pinned THEN <<Pin, " ">> ELSE <<>>)
         \o <<name, " ", Paren, " ", Star, " ", glyph>>

\* Place-search responses as the backend writes them: the header, then up to
\* MaxEntries numbered entries, with or without the pin glyph, the names
\* well-formed or not.
PlaceSearchTexts ==
    {<<FoundNear>> \o sample \o EntryLines(n, pinned, name, glyph) :
        sample \in {<<>>, <<" ", Paren>>}, n \in 0..MaxEntries,
        pinned \in BOOLEAN, name \in {"w", LoneSurrogate},
        glyph \in {OpenGlyph, ClosedGlyph}}

NotRendered == [variant |-> "-"]

NotSummarized == <<"-">>

\* No text summarised for speech.
NoSpeech ==
    /\ speechText = <<>>
    /\ summary = NotSummarized

\* No response formatted.
NoFormat ==
    /\ content = <<>>
    /\ rendered = NotRendered
    /\ NoSpeech

\* An assistant message of the transcript about to be rendered.
InitFormat ==
    /\ content \in GeneratedTexts \cup PlaceSearchTexts
    /\ rendered = NotRendered
    /\ NoSpeech

\* The transcript renders the message (Dashboard.js 1385).
Render ==
    /\ rendered = NotRendered
    /\ rendered' = FormatResponse(content)
    /\ UNCHANGED <<content, speechVars>>
    /\ UNCHANGED otherThanFormat

\* The pieces the texts to summarise are made of.
SpeechPieces ==
    {"w", ".", AirConditioning, TurnedOn, YouAreIn, TemperatureSet, FoundNear, Pin,
     DistanceLabel, DurationLabel, "doors", "locked", "unlocked"}

\* Every text of at most MaxSpeechLen pieces.
SpeechTexts == SeqsUpTo(SpeechPieces, MaxSpeechLen)

\* A voice reply about to be spoken.
InitSpeech ==
    /\ content = <<>>
    /\ rendered = NotRendered
    /\ speechText \in SpeechTexts
    /\ summary = NotSummarized

\* speakText summarises the reply (Dashboard.js 563).
Summarize ==
    /\ summary = NotSummarized
    /\ summary' = ExtractKeyInfoForSpeech(speechText)
    /\ UNCHANGED <<content, rendered, speechText>>
    /\ UNCHANGED otherThanFormat

(***************************************************************************)
(* The socket client's specification.                                      *)
(***************************************************************************)
\* The constructor (App.js 375-381), no WebSocket created yet.
InitSocket ==
    /\ socket = NoSocket
    /\ isConnected = FALSE
    /\ messageHandlers = <<>>
    /\ reconnectAttempts = 0
    /\ readyState = [s \in Sockets |-> "unborn"]
    /\ sockUser = [s \in Sockets |-> NoUser]
    /\ sent = [s \in Sockets |-> <<>>]
    /\ timers = EmptyBag
    /\ thrown = FALSE
    /\ calls = <<>>
    /\ consecutiveDrops = 0
    /\ userClosed = {}
    /\ ev = [op |-> "init", sock |-> NoSocket, attempts |-> 0,
             wasConnected |-> FALSE, tx |-> FALSE, frame |-> <<>>]


Init == InitSocket /\ InitAssistant /\ NoHistory /\ NoFormat

NextSocket ==
    \/ \E u \in Users : Connect(u)
    \/ \E t \in BagToSet(timers) : TimerFires(t)
    \/ \E s \in Sockets : OnOpen(s)
    \/ \E s \in Sockets : OnClose(s)
    \/ \E m \in CallerMessages : Send(m)
    \/ Disconnect

SpecSocket == Init /\ [][NextSocket]_vars

\* The inbound path: the handler list and the frames of the sockets of a
\* client that the application connects once; its sockets then open, drop and
\* are replaced by the retry timer.
NextInbound ==
    \/ \E u \in Users : socket = NoSocket /\ Connect(u)
    \/ \E t \in BagToSet(timers) : TimerFires(t)
    \/ \E s \in Sockets : OnOpen(s)
    \/ \E s \in Sockets : OnClose(s)
    \/ \E s \in Sockets, f \in InboundFrames : OnMessage(s, f)
    \/ \E h \in Handlers : AddMessageHandler(h)
    \/ \E h \in Handlers : RemoveMessageHandler(h)

SpecInbound == Init /\ [][NextInbound]_vars


SpecAssistant == Init /\ [][NextAssistant]_vars

\* The promise of every fetch settles: the backend answers, or the browser
\* rejects the request with a network error, so a send that awaits its
\* reply (Dashboard.js 634) gets one.
AnswerSome ==
    \E r \in BagToSet(requests) :
        \/ \E t \in ReplyTexts : ReplyOk(r, t)
        \/ \E e \in Errors : ReplyFail(r, e)
        \/ Reply401(r)

\* The steps that concern the transcript: the sends and their replies, and
\* the steps that let the user make a send.  The input is empty or holds a
\* message; a whitespace-only message comes from the voice result.
NextTranscript ==
    \/ TypeText(<<"w">>)
    \/ SendText
    \/ VoiceButton
    \/ \E t \in {<<" ">>, <<"w">>} : VoiceResult(t)
    \/ VoiceEnd
    \/ AnswerSome

FairAssistant == Init /\ [][NextTranscript]_vars /\ WF_vars(AnswerSome)

NextHistory == Reconstruct

\* The history tab with a fetched history; the socket client and the
\* assistant are idle.
InitFetched == InitSocket /\ InitAssistant /\ InitHistory /\ NoFormat

SpecHistory == InitFetched /\ [][NextHistory]_vars

\* A history of one interaction, early (01:00) or late (23:00) on one of the
\* days 0..MaxDaysBack, read by a clock that stands at 01:00, 12:00 or 23:00
\* of the last two of those days and not before the interaction.
InitDated ==
    /\ InitSocket
    /\ InitAssistant
    /\ \E d \in 0..MaxDaysBack, h \in {1, 23} :
          interactions = Tagged(<<[timestamp |-> d * DayMs + h * 3600000,
                                   user_input |-> <<"w">>,
                                   agent_response |-> <<"w">>]>>)
    /\ \E d \in {MaxDaysBack - 1, MaxDaysBack}, h \in {1, 12, 23} :
          now = d * DayMs + h * 3600000
    /\ now >= interactions[1].timestamp
    /\ LoadIdle
    /\ NoFormat
    /\ sessions = <<>>
    /\ grouped = FALSE

SpecDated == InitDated /\ [][NextHistory]_vars

NextLoad ==
    \/ OpenHistoryTab
    \/ Answer401
    \/ \E list \in FetchedLists : AnswerOk(list)
    \/ AnswerNoList
    \/ \E status \in {"error", "network"} : AnswerFail(status)

SpecLoad == Init /\ [][NextLoad]_vars

InitRendering == InitSocket /\ InitAssistant /\ NoHistory /\ InitFormat

NextFormat == Render

SpecFormat == InitRendering /\ [][NextFormat]_vars

InitSummarizing == InitSocket /\ InitAssistant /\ NoHistory /\ InitSpeech

NextSpeech == Summarize

SpecSpeech == InitSummarizing /\ [][NextSpeech]_vars

(***************************************************************************)
(* Claims about the socket client.                                         *)
(***************************************************************************)
LiveSockets == {s \in Sockets : Live(s)}
AnnouncementFrame(u) == <<"{", "type", "user_connected", "user_id", u, "}">>
ChatFrame == <<"{", "type", "chat", "user_id", "u1", "}">>
CloseStepOf(s) == readyState[s] \in {"connecting", "open", "closing"} /\ readyState'[s] = "closed"
CloseStep == \E s \in Sockets : CloseStepOf(s)
OpenStep == \E s \in Sockets : readyState[s] = "connecting" /\ readyState'[s] = "open"
DelayTimers(d) == {t \in BagToSet(timers') : t.delay = d /\ CopiesIn(t, timers') = CopiesIn(t, timers) + 1}

\* C1: after disconnect() on a Connected client, the close event that the
\* disconnect causes schedules no reconnect and leaves the attempt counter
\* alone: the client stays Disconnected.
C1_NoReconnectAfterDisconnect ==
    [][\A s \in userClosed :
          CloseStepOf(s) => timers' = timers /\ reconnectAttempts' = reconnectAttempts]_vars

\* C2: an explicit connect() cancels the pending retry: a retry timer that
\* fires right after an explicit connect() (so it was pending during that
\* call) never leaves two sockets connecting or open.
C2_TimerNeverOpensSecondSocket ==
    [][(ev.op = "connect" /\ ev'.op = "timer") => Cardinality(LiveSockets') <= 1]_vars

\* C3: the k-th consecutive drop since the last open (k = 1..5) schedules
\* exactly one reconnect, 2000*k ms later, and counts as attempt k; a drop
\* after the 5th attempt schedules nothing and leaves the counter at 5.
C3_BackoffSchedule ==
    [][CloseStep =>
          IF consecutiveDrops' <= 5
          THEN /\ reconnectAttempts' = consecutiveDrops'
               /\ BagCardinality(timers') = BagCardinality(timers) + 1
               /\ DelayTimers(2000 * consecutiveDrops') # {}
          ELSE /\ reconnectAttempts' = 5
               /\ timers' = timers]_vars

\* C3's case: the attempt after the 5th drop has dropped too, the client is
\* exhausted with nothing scheduled.
C3_Witness ==
    /\ ev.op = "close"
    /\ consecutiveDrops = 6
    /\ reconnectAttempts = 5
    /\ timers = EmptyBag
    /\ LiveSockets = {}

\* C4: every open event sets the attempt counter to 0 and the connected
\* flag, and the first drop after an open is attempt 1, retried after 2000 ms.
C4_OpenResetsAttempts ==
    [][/\ OpenStep => reconnectAttempts' = 0 /\ isConnected'
       /\ (CloseStep /\ consecutiveDrops = 0) =>
              /\ reconnectAttempts' = 1
              /\ DelayTimers(2000) # {}]_vars

\* C4's case: a socket opened after three failed attempts.
C4_Witness ==
    /\ ev.op = "open"
    /\ ev.attempts = 3
    /\ reconnectAttempts = 0
    /\ isConnected

\* C5: the first frame handed to the network on any socket is the
\* user_connected announcement with the userId given to the connect that
\* created the socket, and the open event of the client's current socket
\* transmits it at once.
C5_AnnouncementFirst ==
    /\ \A s \in Sockets :
          sent[s] # <<>> => Head(sent[s]) = AnnouncementFrame(sockUser[s])
    /\ (ev.op = "open" /\ ev.sock = socket) =>
          (ev.tx /\ ~thrown /\ sent[socket] # <<>>)

\* C5's case: a caller's message is transmitted on a socket of user u1, whose
\* first frame was its announcement.
C5_Witness ==
    /\ ev.op = "send"
    /\ ev.tx
    /\ socket # NoSocket
    /\ sockUser[socket] = "u1"
    /\ Head(sent[socket]) = AnnouncementFrame("u1")

\* C6: send while not Connected does not throw, changes no field of the
\* client and transmits nothing; and no step ever transmits a frame other
\* than the announcement of an open event or the message of a send made
\* while Connected (nothing is queued for later).
C6_SendWhileNotConnectedDrops ==
    [][/\ (ev'.op = "send" /\ ~Connected) =>
              /\ ~thrown'
              /\ ~ev'.tx
              /\ UNCHANGED <<socket, isConnected, reconnectAttempts, messageHandlers,
                             readyState, sent, timers>>
       /\ \A s \in Sockets :
              (sent'[s] # sent[s] /\ sent'[s] # <<>>) =>
                  \/ ev'.op = "open" /\ sent'[s] = Append(sent[s], AnnouncementFrame(sockUser[ev'.sock]))
                  \/ ev'.op = "send" /\ Connected /\ sent'[s] = Append(sent[s], ChatFrame)]_vars

\* C6's case: a send made while a reconnect is pending (flag down).
C6_Witness ==
    /\ ev.op = "send"
    /\ ~ev.wasConnected
    /\ timers # EmptyBag
    /\ socket # NoSocket
    /\ ~thrown


(***************************************************************************)
(* Claims about the inbound path.                                          *)
(***************************************************************************)
\* C7: for an inbound frame that parses, the handlers registered when the
\* frame arrives are each called once with the parsed value, in registration
\* order, whether or not one of them throws or unregisters itself.
C7_FanOutInOrder ==
    [][(ev'.op = "message" /\ JSONParse(ev'.frame).ok) =>
          /\ Len(calls') = Len(messageHandlers)
          /\ \A i \in 1..Len(messageHandlers) :
                calls'[i] = [handler |-> messageHandlers[i],
                             data |-> JSONParse(ev'.frame).value]
          /\ ~thrown']_vars

\* C7's case: a throwing handler was called and the one registered after it
\* was called too.
C7_Witness ==
    /\ ev.op = "message"
    /\ Len(calls) = 2
    /\ calls[1].handler = "hThrow"
    /\ calls[2].handler = "hOk"

\* C8: an inbound frame that is not JSON calls no handler, throws nothing and
\* changes neither the handler list nor the connection.
C8_BadFrameDiscarded ==
    [][(ev'.op = "message" /\ ~JSONParse(ev'.frame).ok) =>
          /\ calls' = <<>>
          /\ ~thrown'
          /\ UNCHANGED <<messageHandlers, socket, isConnected, reconnectAttempts,
                         readyState, timers, sent>>]_vars

\* C8's case: a frame that is not JSON arrived on an open socket while
\* handlers were registered.
C8_Witness ==
    /\ ev.op = "message"
    /\ ~JSONParse(ev.frame).ok
    /\ ev.frame # <<>>
    /\ Len(messageHandlers) = 2
    /\ readyState[ev.sock] = "open"
    /\ calls = <<>>


(***************************************************************************)
(* Claims about the assistant.                                             *)
(***************************************************************************)
\* C9: at no time is more than one utterance given to the speech synthesizer
\* and unfinished: a speak request made while one is playing is dropped.
C9_AtMostOneUtterance == utterances <= 1


(***************************************************************************)
(* Claims about the history grouping.                                      *)
(***************************************************************************)
\* The messages of session k that came from the interaction tagged a.
RECURSIVE MessagesFrom(_, _)
MessagesFrom(msgs, a) ==
    IF msgs = <<>> THEN <<>>
    ELSE IF Head(msgs).agent_id = a THEN <<Head(msgs)>> \o MessagesFrom(Tail(msgs), a)
         ELSE MessagesFrom(Tail(msgs), a)

SessionsHolding(a) ==
    {k \in 1..Len(sessions) : MessagesFrom(sessions[k].interactions, a) # <<>>}

\* The non-blank turns of an interaction, user turn first.
ExpectedTurns(x) ==
    (IF x.user_input \notin {NullText, <<>>, <<" ">>}
     THEN <<[type |-> "user", content |-> x.user_input,
             timestamp |-> x.timestamp, agent_id |-> x.agent_id]>> ELSE <<>>)
    \o (IF x.agent_response \notin {NullText, <<>>, <<" ">>}
        THEN <<[type |-> "assistant", content |-> x.agent_response,
                timestamp |-> x.timestamp, agent_id |-> x.agent_id]>> ELSE <<>>)

\* C10: every interaction's non-blank turns (none, one or two) are the
\* messages of exactly one session, no other session holds a message of it,
\* and the sessions hold no other message.
C10_EachInteractionInOneSession ==
    grouped =>
        /\ \A a \in 1..Len(interactions) :
              IF ExpectedTurns(interactions[a]) = <<>>
              THEN SessionsHolding(a) = {}
              ELSE /\ Cardinality(SessionsHolding(a)) = 1
                   /\ \A k \in SessionsHolding(a) :
                         MessagesFrom(sessions[k].interactions, a)
                             = ExpectedTurns(interactions[a])
        /\ \A k \in 1..Len(sessions) :
              \A j \in 1..Len(sessions[k].interactions) :
                  sessions[k].interactions[j].agent_id \in 1..Len(interactions)

\* C10's case: three interactions, with two, one and no non-blank turn, were
\* grouped into more than one session.
C10_Witness ==
    /\ grouped
    /\ Len(interactions) = 3
    /\ Len(sessions) >= 2
    /\ {Len(ExpectedTurns(interactions[a])) : a \in 1..3} = {0, 1, 2}


\* The input in the order the loop processes it: ascending timestamps, equal
\* timestamps in the caller's order.
Processed == SortByTimestamp(interactions)
CalendarDay(t) == t \div DayMs
Minutes(n) == n * 60 * 1000

\* The positions (from 0) of the processed interactions that open a session:
\* the first, one on another calendar date than the one before it, and one
\* more than 30 minutes after the one before it.
Openers ==
    {i - 1 : i \in {j \in 1..Len(Processed) :
        \/ j = 1
        \/ CalendarDay(Processed[j].timestamp) # CalendarDay(Processed[j - 1].timestamp)
        \/ Processed[j].timestamp - Processed[j - 1].timestamp > Minutes(30)}}

\* C11: an interaction opens a session exactly when it is the first, or its
\* calendar date differs from the current session's, or it comes more than
\* 30 minutes after the previous interaction; every interaction that opens
\* no session extends the current one.
C11_SessionBoundaries ==
    grouped =>
        /\ {sessions[k].id : k \in 1..Len(sessions)} = Openers
        /\ Len(sessions) = Cardinality(Openers)
        /\ \A k \in 1..Len(sessions) :
              /\ sessions[k].startTime = Processed[sessions[k].id + 1].timestamp
              /\ sessions[k].date = CalendarDay(sessions[k].startTime)

\* C11's case: 10:00, 10:30 and 10:45 of one day, given in any order, are one
\* session: 10:30 is exactly 30 minutes after 10:00, and 10:45 is 45 minutes
\* after the session's start but 15 after the previous interaction.
C11_Witness ==
    /\ grouped
    /\ {interactions[a].timestamp : a \in 1..Len(interactions)}
           = {36000000, 37800000, 38700000}
    /\ Len(interactions) = 3
    /\ Len(sessions) = 1


RECURSIVE SumOver(_, _)
SumOver(list, i) ==
    IF i > Len(list) THEN 0 ELSE Len(ExpectedTurns(list[i])) + SumOver(list, i + 1)

\* The input as given has strictly increasing timestamps, all on one calendar
\* day, each less than 30 minutes after the one before.
OneSitting ==
    /\ Len(interactions) >= 1
    /\ \A a \in 2..Len(interactions) :
          /\ interactions[a].timestamp > interactions[a - 1].timestamp
          /\ interactions[a].timestamp - interactions[a - 1].timestamp < Minutes(30)
          /\ CalendarDay(interactions[a].timestamp) = CalendarDay(interactions[1].timestamp)

\* C12: N >= 1 interactions of one sitting give exactly one session, whose
\* messageCount is the number of non-blank user and agent fields of the
\* input; an empty input gives no session.
C12_OneSittingOneSession ==
    grouped =>
        /\ OneSitting =>
              /\ Len(sessions) = 1
              /\ sessions[1].messageCount = SumOver(interactions, 1)
              /\ Len(sessions[1].interactions) = SumOver(interactions, 1)
        /\ Len(interactions) = 0 => sessions = <<>>

\* C12's case: three interactions of one sitting (10:30, 10:45, 11:00) with
\* four non-blank fields between them.
C12_Witness ==
    /\ grouped
    /\ OneSitting
    /\ Len(interactions) = 3
    /\ SumOver(interactions, 1) = 4
    /\ sessions[1].messageCount = 4


\* The orders a caller can give the same interactions in.
Orders(n) == {f \in [1..n -> 1..n] : \A a, b \in 1..n : f[a] = f[b] => a = b}
Reordered(list, f) == [k \in 1..Len(list) |-> list[f[k]]]

\* A session list without the session ids.
WithoutIds(ss) ==
    [k \in 1..Len(ss) |->
        [date |-> ss[k].date, displayDate |-> ss[k].displayDate,
         startTime |-> ss[k].startTime, lastInteraction |-> ss[k].lastInteraction,
         interactions |-> ss[k].interactions, messageCount |-> ss[k].messageCount]]

\* C13: whatever order the caller gives the interactions in, the sessions
\* returned are the same, with the same messages in the same order (session
\* ids aside), also when interactions carry equal timestamps.
C13_CallerOrderIrrelevant ==
    grouped =>
        \A f \in Orders(Len(interactions)) :
            WithoutIds(GroupInteractionsBySessions(Reordered(interactions, f), now))
                = WithoutIds(sessions)


\* C14: the sessions returned are most recent first, each starting after the
\* last activity of every session listed after it; within a session the
\* messages are in non-decreasing timestamp order and an interaction's user
\* message comes before its agent message.
C14_RecentFirstChronologicalWithin ==
    grouped =>
        /\ \A k, l \in 1..Len(sessions) :
              k < l => sessions[k].startTime > sessions[l].lastInteraction
        /\ \A k \in 1..Len(sessions) :
              LET msgs == sessions[k].interactions
              IN \A i, j \in 1..Len(msgs) :
                    i < j =>
                        /\ msgs[i].timestamp <= msgs[j].timestamp
                        /\ msgs[i].agent_id = msgs[j].agent_id =>
                              msgs[i].type = "user" /\ msgs[j].type = "assistant"

\* C14's case: two sessions were returned from an input given latest first,
\* the first listed holding the user and agent messages of one interaction
\* followed by a later message.
C14_Witness ==
    /\ grouped
    /\ Len(sessions) = 2
    /\ Len(interactions) = 3
    /\ interactions[1].timestamp > interactions[2].timestamp
    /\ interactions[2].timestamp > interactions[3].timestamp
    /\ Len(sessions[1].interactions) = 3
    /\ sessions[1].interactions[1].agent_id = sessions[1].interactions[2].agent_id
    /\ sessions[1].interactions[3].timestamp > sessions[1].interactions[1].timestamp


\* The calendar days from the start of the session listed first to now.
DaysBack == CalendarDay(now) - CalendarDay(sessions[1].startTime)

\* C15: a session's label follows the calendar days between its start and
\* now: the same day is "Today", the day before is "Yesterday" (also when
\* fewer than 24 hours have passed), 2 to 6 days back is "<N> days ago".
C15_LabelByCalendarDays ==
    (grouped /\ Len(sessions) = 1) =>
        /\ DaysBack = 0 => sessions[1].displayDate.label = "Today"
        /\ DaysBack = 1 => sessions[1].displayDate.label = "Yesterday"
        /\ DaysBack \in 2..6 =>
              sessions[1].displayDate = [label |-> "days ago", n |-> DaysBack]


\* C16: when the history fetch answers 401, groupInteractionsBySessions is
\* not run on that answer, the stored session list and the error text stay
\* as they were, onLogout is called, and historyLoading ends false.
C16_Unauthorized ==
    [][hev'.op = "answer401" =>
          /\ ~hev'.reconstructed
          /\ sessions' = sessions
          /\ historyError' = historyError
          /\ loggedOut'
          /\ ~historyLoading']_vars

\* C16's case: a 401 arrived while sessions from an earlier answer were stored.
C16_Witness ==
    /\ hev.op = "answer401"
    /\ sessions # <<>>
    /\ loggedOut
    /\ ~historyLoading


(***************************************************************************)
(* Claims about response formatting.                                       *)
(***************************************************************************)
\* The spec's example: a header and two numbered entries that carry the
\* pin glyph, three lines in all.
IsPinnedExample ==
    /\ content \in PlaceSearchTexts
    /\ Len(SplitLines(content, <<>>)) = 3
    /\ Includes(content, {Pin})
    /\ ~Includes(content, {LoneSurrogate})

\* C17: a place-search response of a "Found <N> <category> near you" header
\* and two numbered entries with the pin glyph is rendered as a place search
\* with count N, that category and one entry per numbered line, not as a
\* location.
C17_PinnedPlaceSearch ==
    (rendered # NotRendered /\ IsPinnedExample) =>
        /\ rendered.variant = "PlaceSearch"
        /\ rendered.count = 3
        /\ rendered.category = <<"w">>
        /\ Len(rendered.entries) = 2


\* The conditions of the dispatch, read off the text.
HasRouteMarker == \E i \in 1..Len(content) : content[i] \in {TurnByTurn, Clipboard, Compass}
HasPinWithinThreeLines ==
    /\ \E i \in 1..Len(content) : content[i] \in {Pin, PinDestination}
    /\ Cardinality({i \in 1..Len(content) : content[i] = Newline}) <= 2
HasSearchMarker == \E i \in 1..Len(content) : content[i] \in {FoundNear, Magnifier}

\* C18: the text goes to the first of directions, location, place search
\* whose condition it satisfies, and a text that satisfies none is rendered
\* as a general response.
C18_FirstMatchWins ==
    rendered # NotRendered =>
        IF HasRouteMarker THEN rendered = FormatDirectionsResponse(content)
        ELSE IF HasPinWithinThreeLines THEN rendered = FormatLocationResponse(content)
        ELSE IF HasSearchMarker THEN rendered = FormatPlaceSearchResponse(content)
        ELSE rendered = [variant |-> "General", text |-> content]

\* The lines of the text that hold a piece of the given set.
LinesWith(pieces) ==
    {k \in 1..Len(SplitLines(content, <<>>)) :
        \E i \in 1..Len(SplitLines(content, <<>>)[k]) :
            SplitLines(content, <<>>)[k][i] \in pieces}

\* C19: a text sent to the directions parser with no destination line, or
\* with the error marker on any of its lines, is rendered as an error that
\* carries the text unmodified.
C19_ErrorMarkerAnywhere ==
    (rendered # NotRendered /\ HasRouteMarker
        /\ (LinesWith({PinDestination}) = {} \/ LinesWith({Cross}) # {})) =>
        rendered = [variant |-> "Error", raw |-> content]

\* C20: every text, the empty one included, is rendered without an
\* exception as exactly one of the five variants, and as a general response
\* when no rule matches or the place-search header does not parse.
C20_Total ==
    rendered # NotRendered =>
        /\ rendered.variant \in {"PlaceSearch", "Directions", "Location", "General", "Error"}
        /\ (~HasRouteMarker /\ ~HasPinWithinThreeLines /\ ~HasSearchMarker) =>
              rendered = [variant |-> "General", text |-> content]
        /\ (~HasRouteMarker /\ ~HasPinWithinThreeLines /\ HasSearchMarker
                /\ 1 \notin LinesWith({FoundNear}) /\ Len(content) > 0
                /\ content[1] \notin {Newline, " "}) =>
              rendered = [variant |-> "General", text |-> content]


(***************************************************************************)
(* Claims about the summary for speech.                                    *)
(***************************************************************************)
Mentions(piece) == \E i \in 1..Len(speechText) : speechText[i] = piece

\* C21: a text that contains both "air conditioning" and "turned on" is
\* summarised as "Air conditioning turned on.", whatever keywords of the
\* location, place-search, navigation or temperature rules it also contains.
C21_AirConditioningOn ==
    (summary # NotSummarized /\ Mentions(AirConditioning) /\ Mentions(TurnedOn)) =>
        summary = <<"Air conditioning turned on.">>

\* The rules before the door rule return nothing for the text: it holds
\* none of their keywords.
ReachesDoorRule ==
    /\ \A i \in 1..Len(speechText) : speechText[i] \in {"w", ".", "doors", "locked", "unlocked"}
    /\ Mentions("doors") \/ Mentions("locked") \/ Mentions("unlocked")

\* C25: a text that reaches the door rule is summarised as "Doors unlocked."
\* when it contains "unlocked", and as "Doors locked." only when it contains
\* "locked" without "unlocked".
C25_DoorsUnlocked ==
    (summary # NotSummarized /\ ReachesDoorRule) =>
        /\ Mentions("unlocked") => summary = <<"Doors unlocked.">>
        /\ summary = <<"Doors locked.">> => Mentions("locked") /\ ~Mentions("unlocked")

(***************************************************************************)
(* Claims about the conversation transcript.                               *)
(***************************************************************************)
\* The request a reply step answered.
Answered == CHOOSE r \in BagToSet(requests) : requests' = requests (-) SetToBag({r})

ReplyStep(ops) == aev'.op \in ops /\ requests' # requests

\* The wording of the apology for each input method.
Apologies ==
    {<<"Sorry, I encountered an issue processing your ", m, " command. Please try again.">> :
        m \in Methods}

ShowsError(entry) == Includes(entry.content, Errors)

\* C22: when the backend call of a send fails, exactly one assistant entry
\* is appended to the transcript, after the user's entry of that send; its
\* content is the apology, and no entry of the transcript holds the text of
\* the error.
C22_ApologyOnFailure ==
    [][ReplyStep({"replyFail"}) =>
          /\ Len(chatHistory') = Len(chatHistory) + 1
          /\ SubSeq(chatHistory', 1, Len(chatHistory)) = chatHistory
          /\ chatHistory'[Len(chatHistory')].type = "assistant"
          /\ chatHistory'[Len(chatHistory')].content \in Apologies
          /\ \E i \in 1..Len(chatHistory) :
                /\ chatHistory[i].type = "user"
                /\ chatHistory[i].send = Answered.send
          /\ \A i \in 1..Len(chatHistory') : ~ShowsError(chatHistory'[i])]_vars

\* A failed send answered by the apology, for each kind of error.
C22_Witness ==
    /\ aev.op = "replyFail"
    /\ aev.error = FailedToFetch
    /\ Len(chatHistory) = 2
    /\ chatHistory[1].type = "user"
    /\ chatHistory[2].content \in Apologies

(***************************************************************************)
(* Claims about voice capture.                                             *)
(***************************************************************************)
\* C23: pressing the voice control while listening stops the capture and
\* starts no second one, and the listening indicator is idle at once, while
\* the capture session has reported no result, end or error.
C23_StopReturnsToIdle ==
    [][(isListening /\ aev'.op \in {"startVoice", "stopVoice"}) =>
          /\ aev'.op = "stopVoice"
          /\ ~isListening'
          /\ rec' = rec
          /\ recCap' = recCap]_vars

\* The capture was stopped and its session has reported nothing yet.
C23_Witness ==
    /\ aev.op = "stopVoice"
    /\ ~isListening
    /\ rec = "listening"

(***************************************************************************)
(* Claims about sessions without messages.                                 *)
(***************************************************************************)
\* Neither the user input nor the agent response of the interaction has text.
Blank(x) == ExpectedTurns(x) = <<>>

\* C24: an interaction with both fields blank adds no message to any
\* session, but opens a session when it is the first of a new date or gap
\* window; in every session messageCount is the length of the message list.
C24_BlankInteractionOpensSession ==
    grouped =>
        /\ \A a \in 1..Len(interactions) :
              Blank(interactions[a]) => SessionsHolding(a) = {}
        /\ \A i \in Openers :
              Blank(Processed[i + 1]) =>
                  \E k \in 1..Len(sessions) :
                      /\ sessions[k].id = i
                      /\ sessions[k].startTime = Processed[i + 1].timestamp
        /\ \A k \in 1..Len(sessions) :
              sessions[k].messageCount = Len(sessions[k].interactions)

\* A session without messages was returned beside one with messages: its
\* only interaction is blank and opened it.
C24_Witness ==
    /\ grouped
    /\ \E k \in 1..Len(sessions) :
          /\ sessions[k].messageCount = 0
          /\ sessions[k].interactions = <<>>
          /\ Blank(Processed[sessions[k].id + 1])
    /\ \E k \in 1..Len(sessions) : sessions[k].messageCount = 2

(***************************************************************************)
(* Claims about the connected flag.                                        *)
(***************************************************************************)
\* C26: in every reachable state the connected flag is true only if the
\* current socket is non-null and open, and no send raises.
C26_ConnectedMeansOpen ==
    /\ isConnected => (socket # NoSocket /\ readyState[socket] = "open")
    /\ ev.op = "send" => ~thrown

(***************************************************************************)
(* Claims about leaving Exhausted.                                         *)
(***************************************************************************)
\* C27: connect() called by the application when the client is Exhausted
\* starts one connection attempt and leaves the attempt counter at its
\* maximum; when that attempt closes without having opened, no retry is
\* scheduled and the client is Exhausted again.
C27_ConnectFromExhausted ==
    [][/\ (Exhausted /\ ev'.op = "connect") =>
              /\ reconnectAttempts' = reconnectAttempts
              /\ timers' = EmptyBag
              /\ LiveSockets' = {socket'}
              /\ readyState'[socket'] = "connecting"
       /\ \A s \in Sockets :
              (reconnectAttempts = maxReconnectAttempts /\ LiveSockets = {s}
                   /\ timers = EmptyBag /\ readyState[s] = "connecting" /\ CloseStepOf(s)) =>
                  /\ timers' = EmptyBag
                  /\ reconnectAttempts' = maxReconnectAttempts
                  /\ Exhausted']_vars

\* The attempt started by a connect from Exhausted has closed without
\* opening.
C27_Witness ==
    /\ ev.op = "close"
    /\ ev.fromExhausted
    /\ Exhausted
    /\ ~isConnected

(***************************************************************************)
(* Claims about speaking a reply.                                          *)
(***************************************************************************)
\* The response text of the OK reply the step appended to the transcript.
Response == chatHistory'[Len(chatHistory')].content

\* C28: the reply to a voice send that arrives while no utterance is
\* playing, and whose summary is not empty, is given to the speech
\* synthesizer.
C28_SpokenWhenIdle ==
    [][(/\ ReplyStep({"reply", "replySpoken"})
        /\ Answered.method = "voice"
        /\ utterances = 0 /\ ~isSpeaking
        /\ Trim(ExtractKeyInfoForSpeech(Response)) # <<>>) =>
          /\ utterances' = 1
          /\ spoken' = ExtractKeyInfoForSpeech(Response)]_vars

(***************************************************************************)
(* Claims about the loading flag.                                          *)
(***************************************************************************)
\* C29: the loading flag is true whenever a send awaits its reply, so it is
\* false only when no request is in flight.
C29_LoadingWhileInFlight == requests # EmptyBag => isLoading

(***************************************************************************)
(* Claims about the entries of the transcript.                             *)
(***************************************************************************)
EntriesOf(type, n) ==
    {i \in 1..Len(chatHistory) : chatHistory[i].type = type /\ chatHistory[i].send = n}

InFlight(n) == \E r \in BagToSet(requests) : r.send = n

\* The send has its one user entry, and its one assistant entry after it.
Answered1(n) ==
    /\ Cardinality(EntriesOf("assistant", n)) = 1
    /\ \A i \in EntriesOf("user", n), j \in EntriesOf("assistant", n) : i < j

\* Every send made so far has exactly one user entry and at most one
\* assistant entry, which comes after the user entry and is there once the
\* send no longer awaits its reply.
EntriesPerSend ==
    \A n \in 1..sends :
        /\ Cardinality(EntriesOf("user", n)) = 1
        /\ Cardinality(EntriesOf("assistant", n)) <= 1
        /\ \A i \in EntriesOf("user", n), j \in EntriesOf("assistant", n) : i < j
        /\ InFlight(n) => EntriesOf("assistant", n) = {}
        /\ (~InFlight(n) /\ ~loggedOut) => Answered1(n)

\* The message of the send a step makes: the text input, or the transcript
\* of the voice result.
Sent == IF aev'.op = "sendText" THEN assistantMessage ELSE aev'.message

\* What one step does to the transcript.
TranscriptStep ==
    /\ Len(chatHistory') >= Len(chatHistory)
    /\ SubSeq(chatHistory', 1, Len(chatHistory)) = chatHistory
    /\ aev'.op \in {"sendText", "voiceResult"} =>
          IF Trim(Sent) = <<>>
          THEN chatHistory' = chatHistory /\ requests' = requests /\ sends' = sends
          ELSE /\ chatHistory' = Append(chatHistory,
                      [type |-> "user", content |-> Sent, send |-> sends + 1])
               /\ BagCardinality(requests') = BagCardinality(requests) + 1
               /\ sends' = sends + 1
    /\ ReplyStep({"reply", "replySpoken", "replyFail"}) =>
          /\ Len(chatHistory') = Len(chatHistory) + 1
          /\ chatHistory'[Len(chatHistory')].type = "assistant"
          /\ chatHistory'[Len(chatHistory')].send = Answered.send
          /\ aev'.op = "replyFail" <=> chatHistory'[Len(chatHistory')].content \in Apologies
    /\ ReplyStep({"reply401"}) => chatHistory' = chatHistory /\ loggedOut'

\* C30: a send of a non-blank message appends exactly one user entry at
\* once and, unless the user is logged out by a 401, eventually exactly one
\* assistant entry (the response or the apology) after it; a blank message
\* appends nothing and issues no request; no step removes or reorders the
\* entries the transcript holds.
C30_OneUserOneAssistantEntry ==
    /\ []EntriesPerSend
    /\ [][TranscriptStep]_vars
    /\ (requests # EmptyBag) ~> (loggedOut \/ \A n \in 1..sends : Answered1(n))

\* Two sends were in flight together and were answered in the other order,
\* one with a response and one with the apology.
C30_Witness ==
    /\ Len(chatHistory) = 4
    /\ <<chatHistory[1].send, chatHistory[2].send, chatHistory[3].send, chatHistory[4].send>>
           = <<1, 2, 2, 1>>
    /\ chatHistory[3].content \in Apologies
    /\ chatHistory[4].content \in ReplyTexts
    /\ Answered1(1) /\ Answered1(2)

==========================================================================
